---- MODULE Spec2Model ----
(***************************************************************************)
(* A model of the two programs of the repository:                          *)
(*   - examples/ghost/scripts/dumpTables.ts, the schema-type generator:    *)
(*     the naming transforms it uses (lodash camelCase / upperFirst, as    *)
(*     they act on identifiers over [A-Za-z0-9_]), Array.prototype.sort,   *)
(*     and the generateTypes pipeline with its two exits;                  *)
(*   - the in-memory post store of the tutorial chapter (createDraft,      *)
(*     publish, Query.drafts, Query.posts).                                *)
(* Strings that the code takes apart are sequences of one-character        *)
(* strings.                                                                *)
(***************************************************************************)
EXTENDS Integers, Sequences, FiniteSets, TLC

VARIABLES
    \* ---- naming transforms (specification SpecNames)
    nm, nmField, nmType, nmField2, nmType2, nmStage,
    \* ---- the generator process and its environment (specification Spec)
    config, catalog, typesFile, tablesFile, run, prev,
    pc, rows, tableNames, connectionString, contents, tableRows,
    metaConn, introConn, steps, console, exitCode, exitPath,
    \* ---- the tutorial's in-memory store (specification SpecStore)
    posts, lastOp

nameVars == <<nm, nmField, nmType, nmField2, nmType2, nmStage>>
genVars == <<config, catalog, typesFile, tablesFile, run, prev,
             pc, rows, tableNames, connectionString, contents, tableRows,
             metaConn, introConn, steps, console, exitCode, exitPath>>
storeVars == <<posts, lastOp>>
vars == <<nameVars, genVars, storeVars>>

----------------------------------------------------------------------------
(* Characters, in UTF-16 code-unit order                                    *)

DigitSeq == <<"0","1","2","3","4","5","6","7","8","9">>
UpperSeq == <<"A","B","C","D","E","F","G","H","I","J","K","L","M",
              "N","O","P","Q","R","S","T","U","V","W","X","Y","Z">>
LowerSeq == <<"a","b","c","d","e","f","g","h","i","j","k","l","m",
              "n","o","p","q","r","s","t","u","v","w","x","y","z">>
Range(f) == {f[i] : i \in DOMAIN f}
Digit == Range(DigitSeq)
Upper == Range(UpperSeq)
Lower == Range(LowerSeq)
Break == {"_"}
\* code-unit order of the identifier characters: 0-9 < A-Z < _ < a-z
CodeOrder == DigitSeq \o UpperSeq \o <<"_">> \o LowerSeq
CharCode == [c \in Range(CodeOrder) |-> CHOOSE i \in DOMAIN CodeOrder : CodeOrder[i] = c]

toUpperChar == [c \in Range(CodeOrder) |->
                  IF c \in Lower
                  THEN UpperSeq[CHOOSE i \in DOMAIN LowerSeq : LowerSeq[i] = c]
                  ELSE c]
toLowerChar == [c \in Range(CodeOrder) |->
                  IF c \in Upper
                  THEN LowerSeq[CHOOSE i \in DOMAIN UpperSeq : UpperSeq[i] = c]
                  ELSE c]

\* String.prototype.toLowerCase
toLowerCase(s) == [i \in 1..Len(s) |-> toLowerChar[s[i]]]

\* _.upperFirst: the first character upper-cased, the rest untouched
upperFirst(s) == IF s = <<>> THEN <<>>
                 ELSE <<toUpperChar[s[1]]>> \o SubSeq(s, 2, Len(s))

\* _.capitalize: upperFirst(toLowerCase(s))
capitalize(s) == upperFirst(toLowerCase(s))

(* lodash words(): the matches of reUnicodeWord, left to right.  Over       *)
(* [A-Za-z0-9_] a word is: a lower-case run; one upper-case letter and the  *)
(* lower-case run after it; an upper-case run (less its last letter when a  *)
(* lower-case letter follows); an ordinal (digits then st/nd/rd/th); or a   *)
(* digit run.  "_" separates.                                               *)

\* the last index of the run of characters of S that starts at i (i-1: none)
RunEnd(s, i, S) ==
    CHOOSE j \in (i - 1)..Len(s) :
        /\ \A k \in i..j : s[k] \in S
        /\ (j = Len(s) \/ s[j + 1] \notin S)

\* rsOrdLower / rsOrdUpper: the digit run ending at j is followed by the
\* ordinal suffix of its last digit, and then by the end or by [A-Z_] / [a-z_]
OrdSuffix(d) == IF d = "1" THEN <<"s","t">>
                ELSE IF d = "2" THEN <<"n","d">>
                ELSE IF d = "3" THEN <<"r","d">>
                ELSE <<"t","h">>
OrdAt(s, j) ==
    /\ j + 2 <= Len(s)
    /\ LET suf == SubSeq(s, j + 1, j + 2)
       IN \/ /\ suf = OrdSuffix(s[j])
             /\ (j + 2 = Len(s) \/ s[j + 3] \in Upper \cup Break)
          \/ /\ suf = [i \in 1..2 |-> toUpperChar[OrdSuffix(s[j])[i]]]
             /\ (j + 2 = Len(s) \/ s[j + 3] \in Lower \cup Break)

\* mutant of WordEnd: words end only at separators and digits, a change of
\* letter case does not start a new word
WordEndIgnoresCase(s, i) ==
    IF s[i] \in Lower \cup Upper THEN RunEnd(s, i, Lower \cup Upper)
    ELSE
        LET j == RunEnd(s, i, Digit)
        IN IF OrdAt(s, j) THEN j + 2 ELSE j

\* the last index of the word that starts at i, where s[i] is not a separator
WordEnd(s, i) ==
    IF s[i] \in Lower THEN RunEnd(s, i, Lower)
    ELSE IF s[i] \in Upper THEN
        LET j == RunEnd(s, i, Upper)
        IN IF j = i THEN RunEnd(s, i + 1, Lower)
           ELSE IF j < Len(s) /\ s[j + 1] \in Lower THEN j - 1
           ELSE j
    ELSE
        LET j == RunEnd(s, i, Digit)
        IN IF OrdAt(s, j) THEN j + 2 ELSE j

RECURSIVE wordsFrom(_, _)
wordsFrom(s, i) ==
    IF i > Len(s) THEN <<>>
    ELSE IF s[i] \in Break THEN wordsFrom(s, i + 1)
    ELSE LET e == WordEnd(s, i)
         IN <<SubSeq(s, i, e)>> \o wordsFrom(s, e + 1)

words(s) == wordsFrom(s, 1)

\* Array.prototype.join("")
RECURSIVE Concat(_)
Concat(ws) == IF ws = <<>> THEN <<>> ELSE Head(ws) \o Concat(Tail(ws))

\* _.camelCase: the words lower-cased, all but the first capitalized, joined
camelCase(s) ==
    LET ws == words(s)
    IN Concat([i \in 1..Len(ws) |->
                 IF i = 1 THEN toLowerCase(ws[i]) ELSE capitalize(toLowerCase(ws[i]))])

----------------------------------------------------------------------------
(* Array.prototype.sort() with the default comparator: ascending by UTF-16  *)
(* code units, a proper prefix before the longer string                     *)

RECURSIVE StrLess(_, _)
StrLess(a, b) ==
    IF b = <<>> THEN FALSE
    ELSE IF a = <<>> THEN TRUE
    ELSE IF Head(a) = Head(b) THEN StrLess(Tail(a), Tail(b))
    ELSE CharCode[Head(a)] < CharCode[Head(b)]

RECURSIVE InsertSorted(_, _)
InsertSorted(x, s) ==
    IF s = <<>> THEN <<x>>
    ELSE IF StrLess(Head(s), x) THEN <<Head(s)>> \o InsertSorted(x, Tail(s))
    ELSE <<x>> \o s

RECURSIVE SortFrom(_, _)
SortFrom(s, acc) ==
    IF s = <<>> THEN acc ELSE SortFrom(Tail(s), InsertSorted(Head(s), acc))

\* mutant of sort: the call to .sort() left out
sortOmitted(s) == s

sort(s) == SortFrom(s, <<>>)

----------------------------------------------------------------------------
(* Inputs of the generator                                                  *)

MaxTables == 2
MaxRuns == 2

N_posts == <<"p","o","s","t","s">>
N_users == <<"u","s","e","r","s">>
N_posts_tags == <<"p","o","s","t","s","_","t","a","g","s">>
N_postsTags == <<"p","o","s","t","s","T","a","g","s">>

\* table names the target schema may hold
TableUniverse == {N_posts, N_users, N_posts_tags, N_postsTags}

\* the tables of schema ghost_nexus: names are unique within a schema
Catalogs == {S \in SUBSET TableUniverse : Cardinality(S) <= MaxTables}

\* the rows of the metadata query, in any order (the query has no ORDER BY)
RowOrders(S) == {r \in [1..Cardinality(S) -> S] : Range(r) = S}

\* config.development.json: readable or not; with or without the nested
\* database.connection object
ValidConfig ==
    [readable |-> TRUE, hasConnection |-> TRUE, client |-> "mysql",
     user |-> "u", password |-> "p", host |-> "h", port |-> "3306",
     database |-> "d"]
ConfigFiles ==
    {ValidConfig,
     [ValidConfig EXCEPT !.hasConnection = FALSE],
     [ValidConfig EXCEPT !.readable = FALSE]}

\* dbConnectionString(): `${client}://${user}:${password}@${host}:${port}/${database}`
dbConnectionString(cfg) ==
    cfg.client \o "://" \o cfg.user \o ":" \o cfg.password \o "@"
        \o cfg.host \o ":" \o cfg.port \o "/" \o cfg.database

----------------------------------------------------------------------------
(* The two output files                                                     *)

NoText == [state |-> "absent", conn |-> "", tables |-> <<>>, lines |-> <<>>]
StaleText == [NoText EXCEPT !.state = "stale"]
\* what a rejected fs.writeFile can leave: the file as it was (open failed,
\* or format threw before the write), an empty file (opened with flag w,
\* nothing written), a part of the text, or the whole text (all bytes
\* written, the error comes from close)
Truncated == [NoText EXCEPT !.state = "truncated"]
Partial(text) == [text EXCEPT !.state = "partial"]
FailedWrite(old, text) == {old, Truncated, Partial(text), text}

\* typescriptOfSchema(connectionString, tableNames, null, {...}): one
\* interface per table of the list, read from the database behind the
\* connection string; writeHeader: false, so no timestamp
typescriptOfSchema(conn, names) ==
    [state |-> "written", conn |-> conn, tables |-> names, lines |-> <<>>]

\* one member of interface DBTables
TableRow(tbl) ==
    camelCase(tbl) \o <<":", " ", "d", "b", "t", ".">>
        \o upperFirst(camelCase(tbl)) \o <<";">>

\* tableNames.reduce((result, tbl) => result.concat(...), [])
RECURSIVE Reduce(_, _)
Reduce(names, result) ==
    IF names = <<>> THEN result
    ELSE Reduce(Tail(names), result \o <<TableRow(Head(names))>>)

\* the index text: header, import, interface DBTables { tableRows }, and
\* the DBTableName alias; prettier lays it out, the members keep their order
TablesText(trows) ==
    [state |-> "written", conn |-> "", tables |-> <<>>, lines |-> trows]

----------------------------------------------------------------------------
(* The generator process: scripts/dumpTables.ts                             *)
(* pc names the awaited operation in flight; steps records the operations   *)
(* of generateTypes that have settled; exitCode is -1 while the process     *)
(* runs.                                                                    *)

Step(name, ok) == [step |-> name, ok |-> ok]
Out(stream, text) == [stream |-> stream, text |-> text]

ProcessStart ==
    /\ pc = "load"
    /\ rows = <<>>
    /\ tableNames = <<>>
    /\ connectionString = ""
    /\ contents = NoText
    /\ tableRows = <<>>
    /\ metaConn = "unused"
    /\ introConn = "none"
    /\ steps = <<>>
    /\ console = <<>>
    /\ exitCode = -1
    /\ exitPath = "none"

\* module load: require("../config.development.json") and Knex(...) succeed;
\* generateTypes() is called and issues the metadata query
LoadModuleOk ==
    /\ pc = "load"
    /\ config.readable
    /\ pc' = "query"
    /\ UNCHANGED <<nameVars, storeVars, config, catalog, typesFile, tablesFile, run, prev, rows,
                   tableNames, connectionString, contents, tableRows, metaConn,
                   introConn, steps, console, exitCode, exitPath>>

\* require() throws while the module loads: generateTypes() is never called,
\* no handler is attached yet; the runtime prints the exception and exits 1
LoadModuleThrow ==
    /\ pc = "load"
    /\ ~config.readable
    /\ console' = Append(console, Out("stderr", "config"))
    /\ exitCode' = 1
    /\ exitPath' = "uncaught"
    /\ pc' = "exited"
    /\ UNCHANGED <<nameVars, storeVars, config, catalog, typesFile, tablesFile, run, prev, rows,
                   tableNames, connectionString, contents, tableRows, metaConn,
                   introConn, steps>>

\* the metadata query resolves with the schema's rows in order r; then
\* _.map(rows, "TABLE_NAME").sort(), dbConnectionString() (which throws on a
\* config without database.connection) and the call of knex.destroy()
QueryOk(r) ==
    /\ pc = "query"
    /\ r \in RowOrders(catalog)
    /\ rows' = [i \in DOMAIN r |-> [TABLE_NAME |-> r[i]]]
    /\ tableNames' = sort([i \in DOMAIN r |-> rows'[i].TABLE_NAME])
    /\ metaConn' = "open"
    /\ IF config.hasConnection
       THEN /\ connectionString' = dbConnectionString(config)
            /\ steps' = Append(steps, Step("query", TRUE))
            /\ pc' = "destroy"
       ELSE /\ connectionString' = connectionString
            /\ steps' = steps \o <<Step("query", TRUE), Step("connectionString", FALSE)>>
            /\ pc' = "rejected"
    /\ UNCHANGED <<nameVars, storeVars, config, catalog, typesFile, tablesFile, run, prev, contents,
                   tableRows, introConn, console, exitCode, exitPath>>

\* the metadata query rejects: no connection was made, or one was and stays
\* in the pool
QueryFail ==
    /\ pc = "query"
    /\ metaConn' \in {"unused", "open"}
    /\ steps' = Append(steps, Step("query", FALSE))
    /\ pc' = "rejected"
    /\ UNCHANGED <<nameVars, storeVars, config, catalog, typesFile, tablesFile, run, prev, rows,
                   tableNames, connectionString, contents, tableRows, introConn,
                   console, exitCode, exitPath>>

\* mutant of DestroyOk: the introspection is started without awaiting
\* knex.destroy()
DestroyNotAwaited ==
    /\ pc = "destroy"
    /\ steps' = Append(steps, Step("destroy", TRUE))
    /\ console' = Append(console, Out("log", "Reading from: " \o connectionString))
    /\ introConn' = "open"
    /\ pc' = "introspect"
    /\ UNCHANGED <<nameVars, storeVars, config, catalog, typesFile, tablesFile, run, prev, rows,
                   tableNames, connectionString, contents, tableRows, metaConn,
                   exitCode, exitPath>>

\* knex.destroy() resolves: the pool is closed; then the log line and the
\* call of typescriptOfSchema, which connects on its own
DestroyOk ==
    /\ pc = "destroy"
    /\ metaConn' = "closed"
    /\ steps' = Append(steps, Step("destroy", TRUE))
    /\ console' = Append(console, Out("log", "Reading from: " \o connectionString))
    /\ introConn' = "open"
    /\ pc' = "introspect"
    /\ UNCHANGED <<nameVars, storeVars, config, catalog, typesFile, tablesFile, run, prev, rows,
                   tableNames, connectionString, contents, tableRows, exitCode,
                   exitPath>>

DestroyFail ==
    /\ pc = "destroy"
    /\ metaConn' \in {"open", "closed"}
    /\ steps' = Append(steps, Step("destroy", FALSE))
    /\ pc' = "rejected"
    /\ UNCHANGED <<nameVars, storeVars, config, catalog, typesFile, tablesFile, run, prev, rows,
                   tableNames, connectionString, contents, tableRows, introConn,
                   console, exitCode, exitPath>>

\* typescriptOfSchema resolves (the library does not end its connection);
\* then format(contents) and the first fs.writeFile are started
IntrospectOk ==
    /\ pc = "introspect"
    /\ contents' = typescriptOfSchema(connectionString, tableNames)
    /\ introConn' = "open"
    /\ steps' = Append(steps, Step("introspect", TRUE))
    /\ pc' = "writeTypes"
    /\ UNCHANGED <<nameVars, storeVars, config, catalog, typesFile, tablesFile, run, prev, rows,
                   tableNames, connectionString, tableRows, metaConn, console,
                   exitCode, exitPath>>

\* mutant of IntrospectFail: the rejection reaches no handler
IntrospectFailUnhandled ==
    /\ pc = "introspect"
    /\ introConn' \in {"open", "failed"}
    /\ steps' = Append(steps, Step("introspect", FALSE))
    /\ console' = Append(console, Out("stderr", "introspect"))
    /\ exitCode' = 1
    /\ exitPath' = "uncaught"
    /\ pc' = "exited"
    /\ UNCHANGED <<nameVars, storeVars, config, catalog, typesFile, tablesFile, run, prev, rows,
                   tableNames, connectionString, contents, tableRows, metaConn>>

\* typescriptOfSchema rejects: it could not connect, or a query failed
IntrospectFail ==
    /\ pc = "introspect"
    /\ introConn' \in {"open", "failed"}
    /\ steps' = Append(steps, Step("introspect", FALSE))
    /\ pc' = "rejected"
    /\ UNCHANGED <<nameVars, storeVars, config, catalog, typesFile, tablesFile, run, prev, rows,
                   tableNames, connectionString, contents, tableRows, metaConn,
                   console, exitCode, exitPath>>

\* the write of OUT_TYPES resolves; then tableRows is built and the write of
\* OUT_TABLES is started
WriteTypesOk ==
    /\ pc = "writeTypes"
    /\ typesFile' = contents
    /\ tableRows' = Reduce(tableNames, <<>>)
    /\ steps' = Append(steps, Step("writeTypes", TRUE))
    /\ pc' = "writeTables"
    /\ UNCHANGED <<nameVars, storeVars, config, catalog, tablesFile, run, prev, rows, tableNames,
                   connectionString, contents, metaConn, introConn, console,
                   exitCode, exitPath>>

\* format(contents) throws (file untouched) or the write rejects, with the
\* file left in any of the states of FailedWrite
WriteTypesFail ==
    /\ pc = "writeTypes"
    /\ typesFile' \in FailedWrite(typesFile, contents)
    /\ steps' = Append(steps, Step("writeTypes", FALSE))
    /\ pc' = "rejected"
    /\ UNCHANGED <<nameVars, storeVars, config, catalog, tablesFile, run, prev, rows, tableNames,
                   connectionString, contents, tableRows, metaConn, introConn,
                   console, exitCode, exitPath>>

\* mutant of WriteTablesOk: the text is appended to the file
WriteTablesAppends ==
    /\ pc = "writeTables"
    /\ tablesFile' = TablesText(tablesFile.lines \o tableRows)
    /\ steps' = Append(steps, Step("writeTables", TRUE))
    /\ pc' = "resolved"
    /\ UNCHANGED <<nameVars, storeVars, config, catalog, typesFile, run, prev,
                   rows, tableNames, connectionString, contents, tableRows,
                   metaConn, introConn, console, exitCode, exitPath>>

\* the write of OUT_TABLES resolves: generateTypes() is fulfilled
WriteTablesOk ==
    /\ pc = "writeTables"
    /\ tablesFile' = TablesText(tableRows)
    /\ steps' = Append(steps, Step("writeTables", TRUE))
    /\ pc' = "resolved"
    /\ UNCHANGED <<nameVars, storeVars, config, catalog, typesFile, run, prev, rows, tableNames,
                   connectionString, contents, tableRows, metaConn, introConn,
                   console, exitCode, exitPath>>

\* mutant of WriteTablesFail: the first artifact is put back on failure
WriteTablesFailRollback ==
    /\ pc = "writeTables"
    /\ tablesFile' \in FailedWrite(tablesFile, TablesText(tableRows))
    /\ typesFile' = prev.typesFile
    /\ steps' = Append(steps, Step("writeTables", FALSE))
    /\ pc' = "rejected"
    /\ UNCHANGED <<nameVars, storeVars, config, catalog, run, prev, rows, tableNames,
                   connectionString, contents, tableRows, metaConn, introConn,
                   console, exitCode, exitPath>>

WriteTablesFail ==
    /\ pc = "writeTables"
    /\ tablesFile' \in FailedWrite(tablesFile, TablesText(tableRows))
    /\ steps' = Append(steps, Step("writeTables", FALSE))
    /\ pc' = "rejected"
    /\ UNCHANGED <<nameVars, storeVars, config, catalog, typesFile, run, prev, rows, tableNames,
                   connectionString, contents, tableRows, metaConn, introConn,
                   console, exitCode, exitPath>>

\* .then(() => { console.log("Types generated."); process.exit(); })
Then ==
    /\ pc = "resolved"
    /\ console' = Append(console, Out("log", "Types generated."))
    /\ exitCode' = 0
    /\ exitPath' = "then"
    /\ pc' = "exited"
    /\ UNCHANGED <<nameVars, storeVars, config, catalog, typesFile, tablesFile, run, prev, rows,
                   tableNames, connectionString, contents, tableRows, metaConn,
                   introConn, steps>>

\* mutant of Catch: process.exit() without the status
CatchExitsZero ==
    /\ pc = "rejected"
    /\ console' = Append(console, Out("error", steps[Len(steps)].step))
    /\ exitCode' = 0
    /\ exitPath' = "catch"
    /\ pc' = "exited"
    /\ UNCHANGED <<nameVars, storeVars, config, catalog, typesFile, tablesFile, run, prev, rows,
                   tableNames, connectionString, contents, tableRows, metaConn,
                   introConn, steps>>

\* .catch((e) => { console.error(e); process.exit(1); })
Catch ==
    /\ pc = "rejected"
    /\ console' = Append(console, Out("error", steps[Len(steps)].step))
    /\ exitCode' = 1
    /\ exitPath' = "catch"
    /\ pc' = "exited"
    /\ UNCHANGED <<nameVars, storeVars, config, catalog, typesFile, tablesFile, run, prev, rows,
                   tableNames, connectionString, contents, tableRows, metaConn,
                   introConn, steps>>

\* the script is run again: a new process; the files and the configuration
\* are as the last run left them, the schema may have changed meanwhile
Rerun(c) ==
    /\ pc = "exited"
    /\ run < MaxRuns
    /\ c \in Catalogs
    /\ catalog' = c
    /\ run' = run + 1
    /\ prev' = [catalog |-> catalog, typesFile |-> typesFile,
                tablesFile |-> tablesFile, exitCode |-> exitCode]
    /\ pc' = "load"
    /\ rows' = <<>>
    /\ tableNames' = <<>>
    /\ connectionString' = ""
    /\ contents' = NoText
    /\ tableRows' = <<>>
    /\ metaConn' = "unused"
    /\ introConn' = "none"
    /\ steps' = <<>>
    /\ console' = <<>>
    /\ exitCode' = -1
    /\ exitPath' = "none"
    /\ UNCHANGED <<nameVars, storeVars, config, typesFile, tablesFile>>

NamesIdle ==
    /\ nm = <<>>
    /\ nmField = <<>>
    /\ nmType = <<>>
    /\ nmField2 = <<>>
    /\ nmType2 = <<>>
    /\ nmStage = "idle"

StoreIdle ==
    /\ posts = <<>>
    /\ lastOp = [op |-> "none", draftId |-> 0, threw |-> FALSE]

Init ==
    /\ config \in ConfigFiles
    /\ catalog \in Catalogs
    /\ \E text \in {NoText, StaleText} : typesFile = text /\ tablesFile = text
    /\ run = 1
    /\ prev = [catalog |-> {}, typesFile |-> typesFile,
               tablesFile |-> tablesFile, exitCode |-> -1]
    /\ ProcessStart
    /\ NamesIdle
    /\ StoreIdle

Next ==
    \/ LoadModuleOk
    \/ LoadModuleThrow
    \/ \E r \in RowOrders(catalog) : QueryOk(r)
    \/ QueryFail
    \/ DestroyOk
    \/ DestroyFail
    \/ IntrospectOk
    \/ IntrospectFail
    \/ WriteTypesOk
    \/ WriteTypesFail
    \/ WriteTablesOk
    \/ WriteTablesFail
    \/ Then
    \/ Catch
    \/ \E c \in Catalogs : Rerun(c)

Spec == Init /\ [][Next]_vars

----------------------------------------------------------------------------
(* The naming transforms on their own: a name is normalized as TableRow     *)
(* does, and the results are normalized once more                           *)

MaxNameLen == 5
\* lower- and upper-case letters, the separator and a digit; with s and t
\* the names include ordinals (1st, 1ST), which words() keeps in one piece
NameChars == {"s", "t", "S", "T", "_", "1"}
\* names with the other ordinal suffixes
OrdinalNames ==
    {<<"2","n","d","_","2">>,
     <<"3","r","d","_","3">>,
     <<"4","t","h","_","4">>,
     <<"4","T","H","_","4">>,
     <<"1","2","t","h">>,
     <<"2","2","N","D">>,
     <<"x","_","1","s","t","_","2","n","d">>,
     <<"4","t","h","e","y">>}
Names ==
    UNION {[1..k -> NameChars] : k \in 1..MaxNameLen}
        \cup TableUniverse \cup OrdinalNames

GeneratorIdle ==
    /\ config = ValidConfig
    /\ catalog = {}
    /\ typesFile = NoText
    /\ tablesFile = NoText
    /\ run = 1
    /\ prev = [catalog |-> {}, typesFile |-> NoText, tablesFile |-> NoText,
               exitCode |-> -1]
    /\ ProcessStart

\* `${_.camelCase(tbl)}: dbt.${_.upperFirst(_.camelCase(tbl))};`
Normalize ==
    /\ nmStage = "input"
    /\ nmField' = camelCase(nm)
    /\ nmType' = upperFirst(camelCase(nm))
    /\ nmStage' = "once"
    /\ UNCHANGED <<nm, nmField2, nmType2, genVars, storeVars>>

\* the same transforms applied to their own results
NormalizeAgain ==
    /\ nmStage = "once"
    /\ nmField2' = camelCase(nmField)
    /\ nmType2' = upperFirst(camelCase(nmType))
    /\ nmStage' = "twice"
    /\ UNCHANGED <<nm, nmField, nmType, genVars, storeVars>>

InitNames ==
    /\ nm \in Names
    /\ nmField = <<>>
    /\ nmType = <<>>
    /\ nmField2 = <<>>
    /\ nmType2 = <<>>
    /\ nmStage = "input"
    /\ GeneratorIdle
    /\ StoreIdle

NextNames ==
    \/ Normalize
    \/ NormalizeAgain

SpecNames == InitNames /\ [][NextNames]_vars

----------------------------------------------------------------------------
(* The tutorial's in-memory store: api/db.ts and api/graphql/Post.ts        *)

MaxPosts == 3
Titles == {"Nexus", "Draft"}
Bodies == {"..."}
\* draftId: nonNull(intArg()), any Int; these cover below, inside and above
DraftIds == (-1)..(MaxPosts + 1)

\* export const db: Db = { posts: [{ id: 1, title: 'Nexus', ... }] }
db == <<[id |-> 1, title |-> "Nexus", body |-> "...", published |-> FALSE]>>

\* Query.drafts: ctx.db.posts.filter(p => p.published === false)
IsDraft(p) == p.published = FALSE
drafts(ps) == SelectSeq(ps, IsDraft)

\* Query.posts: ctx.db.posts.filter(p => p.published === true)
IsPublished(p) == p.published = TRUE
publishedPosts(ps) == SelectSeq(ps, IsPublished)

\* mutant of createDraft: the id is posts.length, not posts.length + 1
createDraftIdOffByOne(title, body) ==
    /\ Len(posts) < MaxPosts
    /\ LET draft == [id |-> Len(posts), title |-> title, body |-> body,
                     published |-> FALSE]
       IN /\ posts' = Append(posts, draft)
          /\ lastOp' = [op |-> "createDraft", draftId |-> draft.id, threw |-> FALSE]
    /\ UNCHANGED <<nameVars, genVars>>

\* Mutation.createDraft(title, body)
createDraft(title, body) ==
    /\ Len(posts) < MaxPosts
    /\ LET draft == [id |-> Len(posts) + 1, title |-> title, body |-> body,
                     published |-> FALSE]
       IN /\ posts' = Append(posts, draft)
          /\ lastOp' = [op |-> "createDraft", draftId |-> draft.id, threw |-> FALSE]
    /\ UNCHANGED <<nameVars, genVars>>

\* Array.prototype.find: the index of the first post with that id, 0 if none
find(ps, id) ==
    IF \E i \in DOMAIN ps : ps[i].id = id
    THEN CHOOSE i \in DOMAIN ps :
             /\ ps[i].id = id
             /\ \A j \in 1..(i - 1) : ps[j].id # id
    ELSE 0

\* mutant of publish: the flag is flipped, not set
publishToggles(draftId) ==
    /\ LET i == find(posts, draftId)
       IN IF i = 0
          THEN /\ posts' = posts
               /\ lastOp' = [op |-> "publish", draftId |-> draftId, threw |-> TRUE]
          ELSE /\ posts' = [posts EXCEPT ![i].published = ~posts[i].published]
               /\ lastOp' = [op |-> "publish", draftId |-> draftId, threw |-> FALSE]
    /\ UNCHANGED <<nameVars, genVars>>

\* Mutation.publish(draftId): throws when no post has the id
publish(draftId) ==
    /\ LET i == find(posts, draftId)
       IN IF i = 0
          THEN /\ posts' = posts
               /\ lastOp' = [op |-> "publish", draftId |-> draftId, threw |-> TRUE]
          ELSE /\ posts' = [posts EXCEPT ![i].published = TRUE]
               /\ lastOp' = [op |-> "publish", draftId |-> draftId, threw |-> FALSE]
    /\ UNCHANGED <<nameVars, genVars>>

InitStore ==
    /\ posts = db
    /\ lastOp = [op |-> "none", draftId |-> 0, threw |-> FALSE]
    /\ NamesIdle
    /\ GeneratorIdle

NextStore ==
    \/ \E title \in Titles, body \in Bodies : createDraft(title, body)
    \/ \E draftId \in DraftIds : publish(draftId)

SpecStore == InitStore /\ [][NextStore]_vars

----------------------------------------------------------------------------
(* Properties of the generator (specification Spec)                         *)

Last(q) == q[Len(q)]
StepAt(name, ok) == {i \in DOMAIN steps : steps[i] = Step(name, ok)}
Succeeded == pc = "exited" /\ exitCode = 0

\* the key of a member line: the text before the colon
KeyOf(line) ==
    SubSeq(line, 1, (CHOOSE i \in DOMAIN line :
                        line[i] = ":" /\ \A j \in 1..(i - 1) : line[j] # ":") - 1)

\* the names of a set, ascending: what any order of the rows must sort to
Ascending(q) == \A i, j \in DOMAIN q : i < j => StrLess(q[i], q[j])
SortedNames(S) == CHOOSE q \in RowOrders(S) : Ascending(q)

\* C1: after a successful run on a non-empty schema, the index holds exactly
\* one member per discovered table, the keys are exactly the normalized
\* names, and no two tables share a key.
C1_OneKeyPerTable ==
    (Succeeded /\ catalog # {}) =>
        LET lines == tablesFile.lines
            keys == [i \in DOMAIN lines |-> KeyOf(lines[i])]
        IN /\ Len(lines) = Cardinality(catalog)
           /\ \A t \in catalog :
                  Cardinality({i \in DOMAIN lines : lines[i] = TableRow(t)}) = 1
           /\ Range(keys) = {camelCase(t) : t \in catalog}
           /\ \A i, j \in DOMAIN keys : i # j => keys[i] # keys[j]

\* C2: the metadata connection is closed after the query has returned and
\* before the introspection connects; the two are never open together, and
\* no query is in flight on the metadata connection once it is closed.
C2_MetadataClosedBeforeIntrospection ==
    /\ ~(metaConn = "open" /\ introConn = "open")
    /\ introConn # "none" =>
           /\ metaConn = "closed"
           /\ StepAt("destroy", TRUE) # {}
    /\ metaConn = "closed" =>
           /\ pc \notin {"load", "query"}
           /\ \E i \in StepAt("query", TRUE) : \E j \in DOMAIN steps :
                  i < j /\ steps[j].step = "destroy"

C2_Witness ==
    pc = "introspect" /\ introConn = "open" /\ metaConn = "closed"

PipelineSteps == <<"query", "destroy", "introspect", "writeTypes", "writeTables">>

\* C3: the process exits 0, the confirmation printed last, exactly when all
\* five steps succeeded; a failed step is the last step that ran, the error
\* is printed and the exit status is 1; an exit is one of the two.
C3_ExitStatusMatchesPipeline ==
    /\ \A i \in DOMAIN steps : i < Len(steps) => steps[i].ok
    /\ \A i \in DOMAIN steps : steps[i].ok => steps[i].step = PipelineSteps[i]
    /\ pc = "exited" =>
           /\ exitCode \in {0, 1}
           /\ exitCode = 0 <=>
                  steps = [i \in 1..Len(PipelineSteps) |-> Step(PipelineSteps[i], TRUE)]
           /\ exitCode = 0 => Last(console) = Out("log", "Types generated.")
           /\ exitCode = 1 =>
                  /\ Last(console).stream \in {"error", "stderr"}
                  /\ \A i \in DOMAIN console :
                         console[i] # Out("log", "Types generated.")
                  /\ steps # <<>> => ~Last(steps).ok

C3_Witness ==
    /\ pc = "exited"
    /\ exitCode = 1
    /\ steps # <<>>
    /\ Last(steps) = Step("introspect", FALSE)
    /\ prev.exitCode = 0

\* what the index holds after its write failed, if a failed write never
\* leaves the new text: the old text, nothing, or a part of the new text
NotReplaced(old, text) == {old, Truncated, Partial(text)}

\* C4 as stated: the index is written only after the types file was written;
\* when the types write fails the index is not touched; when the index write
\* fails the types file keeps this run's text, the index is not replaced by
\* the new text, and the run ends in the failure outcome.
C4_IndexNotReplacedOnFailure ==
    /\ \A i \in DOMAIN steps :
           steps[i].step = "writeTables" =>
               i > 1 /\ steps[i - 1] = Step("writeTypes", TRUE)
    /\ (steps # <<>> /\ Last(steps) = Step("writeTypes", FALSE)) =>
           /\ tablesFile = prev.tablesFile
           /\ pc \in {"rejected", "exited"}
    /\ (steps # <<>> /\ Last(steps) = Step("writeTables", FALSE)) =>
           /\ typesFile = typescriptOfSchema(dbConnectionString(config), tableNames)
           /\ tablesFile \in NotReplaced(prev.tablesFile, TablesText(tableRows))
           /\ pc \in {"rejected", "exited"}
           /\ pc = "exited" => exitCode = 1

\* C4 amended: the index is written only after the types file was written;
\* when the types write fails the index is not touched; when the index write
\* fails the types file keeps this run's text and the run ends in the
\* failure outcome, while the index holds its old text, nothing, a part of
\* the new text or the whole new text.
C4_TypesThenTablesNoRollback ==
    /\ \A i \in DOMAIN steps :
           steps[i].step = "writeTables" =>
               i > 1 /\ steps[i - 1] = Step("writeTypes", TRUE)
    /\ (steps # <<>> /\ Last(steps) = Step("writeTypes", FALSE)) =>
           /\ tablesFile = prev.tablesFile
           /\ pc \in {"rejected", "exited"}
    /\ (steps # <<>> /\ Last(steps) = Step("writeTables", FALSE)) =>
           /\ typesFile = typescriptOfSchema(dbConnectionString(config), tableNames)
           /\ tablesFile \in {prev.tablesFile, Truncated,
                               Partial(TablesText(tableRows)), TablesText(tableRows)}
           /\ pc \in {"rejected", "exited"}
           /\ pc = "exited" => exitCode = 1

\* the index write was rejected at close: exit 1, yet the index holds the
\* whole new text in place of the stale one
C4_Witness ==
    /\ pc = "exited"
    /\ exitCode = 1
    /\ steps # <<>>
    /\ Last(steps) = Step("writeTables", FALSE)
    /\ typesFile.state = "written"
    /\ prev.tablesFile = StaleText
    /\ catalog # {}
    /\ tablesFile = TablesText(tableRows)

\* C5 as stated: every failure, a configuration-read failure included, ends
\* the process through the .catch handler of generateTypes().
C5_EveryFailureReachesCatch ==
    (pc = "exited" /\ (~config.readable \/ \E i \in DOMAIN steps : ~steps[i].ok))
        => exitPath = "catch"

\* C5 amended: a failure inside generateTypes ends the process through the
\* .catch handler (error logged, status 1); a configuration-read failure is
\* thrown while the module loads, before generateTypes is called, and ends
\* the process as an uncaught exception (error printed, status 1).
C5_FailuresInsideGenerateTypesReachCatch ==
    pc = "exited" =>
        /\ exitPath \in {"then", "catch", "uncaught"}
        /\ exitPath = "catch" <=> (steps # <<>> /\ ~Last(steps).ok)
        /\ exitPath = "uncaught" <=> ~config.readable
        /\ exitPath = "catch" =>
               /\ exitCode = 1
               /\ Last(console) = Out("error", Last(steps).step)
        /\ exitPath = "uncaught" =>
               /\ exitCode = 1
               /\ steps = <<>>
               /\ console = <<Out("stderr", "config")>>

C5_Witness ==
    pc = "exited" /\ exitPath = "uncaught" /\ ~config.readable

\* C6: once the query has returned, tableNames is exactly the TABLE_NAME
\* values of this run's rows, ascending and without repetition; that list
\* is what the introspection gets and what the index is rendered from, one
\* member per name, in that order.
C6_TableNamesAreSortedQueryResult ==
    StepAt("query", TRUE) # {} =>
        /\ {rows[i].TABLE_NAME : i \in DOMAIN rows} = catalog
        /\ Len(rows) = Cardinality(catalog)
        /\ Len(tableNames) = Len(rows)
        /\ Range(tableNames) = {rows[i].TABLE_NAME : i \in DOMAIN rows}
        /\ Ascending(tableNames)
        /\ StepAt("introspect", TRUE) # {} => contents.tables = tableNames
        /\ StepAt("writeTypes", TRUE) # {} =>
               tableRows = [i \in DOMAIN tableNames |-> TableRow(tableNames[i])]
        /\ StepAt("writeTables", TRUE) # {} =>
               tablesFile.lines = [i \in DOMAIN tableNames |-> TableRow(tableNames[i])]

C6_Witness ==
    /\ pc = "resolved"
    /\ run = 2
    /\ prev.exitCode = 0
    /\ prev.catalog # catalog
    /\ Len(rows) = 2
    /\ rows[1].TABLE_NAME = tableNames[2]

\* C7: after a successful run both files are a function of the
\* configuration and the set of tables only, whatever the order of the rows
\* and whatever the files held before; so a successful run that follows a
\* successful run on the same schema leaves both files as they were.
C7_RerunLeavesFilesIdentical ==
    /\ Succeeded =>
           /\ typesFile =
                  typescriptOfSchema(dbConnectionString(config), SortedNames(catalog))
           /\ tablesFile =
                  TablesText([i \in 1..Cardinality(catalog) |->
                                 TableRow(SortedNames(catalog)[i])])
    /\ (Succeeded /\ prev.exitCode = 0 /\ prev.catalog = catalog) =>
           /\ typesFile = prev.typesFile
           /\ tablesFile = prev.tablesFile

C7_Witness ==
    /\ Succeeded
    /\ run = 2
    /\ prev.exitCode = 0
    /\ prev.catalog = catalog
    /\ Len(rows) = 2
    /\ rows[1].TABLE_NAME = tableNames[2]
    /\ tablesFile = prev.tablesFile

----------------------------------------------------------------------------
(* Properties of the naming transforms (specification SpecNames)            *)

NoAdjacentUppers(s) ==
    \A i \in 1..(Len(s) - 1) : ~(s[i] \in Upper /\ s[i + 1] \in Upper)

NoDigitBeforeLower(s) ==
    \A i \in 1..(Len(s) - 1) : ~(s[i] \in Digit /\ s[i + 1] \in Lower)

\* a normalized name that words() splits back into the words it was made of
SplitsBack(s) == NoAdjacentUppers(s) /\ NoDigitBeforeLower(s)

\* the type name is the field name with its first letter in upper case
TypeIsFieldUpperFirst ==
    /\ Len(nmType) = Len(nmField)
    /\ \A i \in DOMAIN nmField :
           nmType[i] = IF i = 1 THEN toUpperChar[nmField[1]] ELSE nmField[i]

\* C8 as stated: for every table name, normalizing the field name again and
\* normalizing the type name again change nothing, and the type name is the
\* field name with its first letter in upper case.
C8_TransformsIdempotent ==
    /\ nmStage \in {"once", "twice"} => TypeIsFieldUpperFirst
    /\ nmStage = "twice" => (nmField2 = nmField /\ nmType2 = nmType)

\* C8 amended: the type name is always the field name with its first letter
\* in upper case; normalizing the field name (the type name) again changes
\* nothing when it has no two adjacent upper-case letters and no digit
\* directly followed by a lower-case letter.
C8_IdempotentWhenSplitsBack ==
    /\ nmStage \in {"once", "twice"} => TypeIsFieldUpperFirst
    /\ nmStage = "twice" =>
           /\ SplitsBack(nmField) => nmField2 = nmField
           /\ SplitsBack(nmType) => nmType2 = nmType

\* digits around st, which is no ordinal before a digit: three words,
\* normalized to a name that splits back, and normalized again
C8_Witness ==
    /\ nmStage = "twice"
    /\ nm = <<"1", "s", "t", "1">>
    /\ nmField = <<"1", "S", "t", "1">>
    /\ SplitsBack(nmField)
    /\ SplitsBack(nmType)
    /\ nmField2 = nmField
    /\ nmType2 = nmType

----------------------------------------------------------------------------
(* Properties of the in-memory store (specification SpecStore)              *)

Returns(result, p) == \E j \in DOMAIN result : result[j] = p

\* every stored post is returned by exactly one of the two queries
EachPostInOneQuery ==
    \A i \in DOMAIN posts :
        Returns(publishedPosts(posts), posts[i]) # Returns(drafts(posts), posts[i])

\* a published post is still stored after the step, and then the posts query
\* returns it and the drafts query does not
PublishedStays ==
    \A i \in DOMAIN posts :
        posts[i].published =>
            /\ i \in DOMAIN posts'
            /\ posts'[i].id = posts[i].id
            /\ Returns(publishedPosts(posts'), posts'[i])
            /\ ~Returns(drafts(posts'), posts'[i])

\* C9: once a post is published, the posts query returns it and the drafts
\* query does not, in every later state; at every state each stored post is
\* returned by exactly one of the two queries.
C9_PublishedNeverReverts == [](EachPostInOneQuery) /\ [][PublishedStays]_vars

C9_Witness ==
    /\ Len(posts) = 3
    /\ posts[1].published
    /\ ~posts[3].published
    /\ lastOp.op = "createDraft"
    /\ lastOp.draftId = 3

\* the ids are 1..n in order, so pairwise distinct
IdsAreOneToN ==
    /\ \A i \in DOMAIN posts : posts[i].id = i
    /\ \A i, j \in DOMAIN posts : i # j => posts[i].id # posts[j].id
    /\ {posts[i].id : i \in DOMAIN posts} = 1..Len(posts)

\* the last publish call threw exactly when its id was outside 1..n, and
\* otherwise published the one post with that id
PublishOutcome ==
    lastOp.op = "publish" =>
        /\ lastOp.threw <=> lastOp.draftId \notin 1..Len(posts)
        /\ ~lastOp.threw =>
               /\ Cardinality({i \in DOMAIN posts : posts[i].id = lastOp.draftId}) = 1
               /\ posts[find(posts, lastOp.draftId)].published

\* a publish call that throws leaves the store as it was
ThrowLeavesStore ==
    (lastOp'.op = "publish" /\ lastOp'.threw) => posts' = posts

\* C10: the ids are pairwise distinct and are exactly 1..n; publish acts on
\* the one post with the id, and a publish with an id outside 1..n throws
\* and leaves the store unchanged.
C10_IdsDenseAndUnique ==
    [](IdsAreOneToN /\ PublishOutcome) /\ [][ThrowLeavesStore]_vars

C10_Witness ==
    /\ Len(posts) = 3
    /\ lastOp.op = "publish"
    /\ lastOp.threw
    /\ lastOp.draftId = 4
    /\ posts[2].published

====
